---- MODULE Spec2Model ----
(***************************************************************************)
(* Model of the VIX futures term-structure pipeline                        *)
(* (Data_Collection_And_Processing/Data_Processing(VIX).py) and of the     *)
(* yield-curve slope run, data_type = "FRED", of                           *)
(* Data_Processing(Indices_and_yields).py.  A behaviour is one run of one  *)
(* of the two programs; the variables of the other keep their initial      *)
(* value.                                                                  *)
(*                                                                         *)
(* Dates are positive integers (one unit = one calendar day).  A contract  *)
(* identifier is the record [name, date]: `date` is what the last ten      *)
(* characters of the identifier string encode, and ISO date strings sort   *)
(* like the dates themselves.  A data frame is a sequence of rows          *)
(* [date, Close, key]; `key` records the identifier of the contract the    *)
(* row was read from, so that the provenance of a stitched price can be   *)
(* stated.  A pandas missing value is the distinguished number NaN.        *)
(* Python exceptions are recorded in `err`, and end the run (pc =          *)
(* "failed"): the source has no try/except.                                *)
(***************************************************************************)
EXTENDS Integers, Sequences, FiniteSets, TLC

\* ---------------------------------------------------------------- bounds
MaxDate == 4
MaxContracts == 3
MaxRoll == 2
MaxRank == 2
MaxLag == 1
MaxFredRows == 2

Dates == 1..MaxDate

\* The missing value pandas puts where an outer join has no observation.
NaN == -1

\* ------------------------------------------------------------- variables
VARIABLES
    data,                   \* self.data: identifier -> frame, as the pairs
                            \* <<identifier, frame>> in insertion order
    spot_vix,               \* self.spot_vix: rows [date, Close]
    days_of_liquidity,      \* self.days_of_liquidity (roll offset r)
    max_contract_maturity,  \* self.max_contract_maturity (N); contract_maturity = range(1, N+1)
    start_date, end_date,   \* self.start_date, self.end_date
    dates_to_drop,          \* self.dates_to_drop
    unordered_dates,        \* local of __call__ (step 1.1), sorted in place by step 1.2
    ordered,                \* self._ordered_contracts_based_on_dates
    contract_month,         \* loop variable of _process_maturity_data
    concatenated_dict,      \* self.concatenated_dict: rank -> stitched frame
    merged_df,              \* self.merged_df: rows [date, cells]
    pseudo_exp_date_dict,   \* result of step 2.1: pairs [exp, pseudo] in insertion order
    days_to_maturity,       \* self.days_to_maturity: rows [date, days]
    dtm_ok,                 \* TRUE once self.days_to_maturity has been built
    slopes,                 \* slopes/dates lists of _gen_vix_curve_slopes: rows [date, slope, fit]
    row_i,                  \* loop variable of _gen_vix_curve_slopes
    output,                 \* the exported table (step 2.6)
    pc,                     \* position in __call__
    err,                    \* the exception that ended the run, or "none"
    fred_data,              \* DataProcessing.data of a FRED run: rows [date, cells]
    processed_data          \* DataProcessing.processed_data: rows [date, cells, Full_Slope]

vars == <<data, spot_vix, days_of_liquidity, max_contract_maturity, start_date,
          end_date, dates_to_drop, unordered_dates, ordered, contract_month,
          concatenated_dict, merged_df, pseudo_exp_date_dict, days_to_maturity,
          dtm_ok, slopes, row_i, output, pc, err, fred_data, processed_data>>

fred == <<fred_data, processed_data>>

config == <<data, spot_vix, days_of_liquidity, max_contract_maturity, start_date,
            end_date, dates_to_drop>>

\* ------------------------------------------------------ generic helpers
Range(s) == {s[i] : i \in 1..Len(s)}

Last(s) == s[Len(s)]

Index(frame) == [i \in 1..Len(frame) |-> frame[i].date]

IndexSet(frame) == {frame[i].date : i \in 1..Len(frame)}

\* The ascending sequence of a finite set of integers (a sorted index).
RECURSIVE SortedSeqOf(_)
SortedSeqOf(S) ==
    IF S = {} THEN <<>>
    ELSE LET m == CHOOSE x \in S : \A y \in S : x <= y
         IN  <<m>> \o SortedSeqOf(S \ {m})

\* list.sort() on a list of date strings: a stable ascending sort that keeps
\* repeated values.
\* The insertion step of a sort that leaves the list as it was given.
InsertAtEnd(s, x) == Append(s, x)

RECURSIVE InsertSorted(_, _)
InsertSorted(s, x) ==
    IF s = <<>> THEN <<x>>
    ELSE IF x < Head(s) THEN <<x>> \o s
    ELSE <<Head(s)>> \o InsertSorted(Tail(s), x)

RECURSIVE ListSort(_)
ListSort(s) ==
    IF s = <<>> THEN <<>>
    ELSE InsertSorted(ListSort(SubSeq(s, 1, Len(s) - 1)), Last(s))

\* frame.iloc[:-r] with the cut one row too late (frame.iloc[:-r + 1]).
ILocDropLastOffByOne(frame, r) ==
    IF r = 0 THEN <<>> ELSE SubSeq(frame, 1, Len(frame) - r + 1)

\* frame.iloc[:-r].  Python reads -0 as 0, so r = 0 selects frame.iloc[:0],
\* the empty frame.
ILocDropLast(frame, r) ==
    IF r = 0 THEN <<>> ELSE SubSeq(frame, 1, Len(frame) - r)

\* frame.index[-r] exists (no IndexError).  index[-0] is index[0].
HasIndexFromEnd(frame, r) ==
    IF r = 0 THEN Len(frame) >= 1 ELSE r <= Len(frame)

\* frame.index[-r]
IndexFromEnd(frame, r) ==
    IF r = 0 THEN frame[1].date ELSE frame[Len(frame) - r + 1].date

\* frame[frame.index > d] and frame[frame.index < d]
RowsAfter(frame, d) == SelectSeq(frame, LAMBDA o : o.date > d)

RowsBefore(frame, d) == SelectSeq(frame, LAMBDA o : o.date < d)

\* frame[~frame.index.duplicated()]: the first row of every date.
DropDuplicated(frame) ==
    LET keep == {i \in 1..Len(frame) : \A j \in 1..(i - 1) : frame[j].date # frame[i].date}
        RECURSIVE Pick(_)
        Pick(i) == IF i > Len(frame) THEN <<>>
                   ELSE (IF i \in keep THEN <<frame[i]>> ELSE <<>>) \o Pick(i + 1)
    IN  Pick(1)

\* ------------------------------------------------------- the input data
\* self.data[identifier]
Keys == [i \in 1..Len(data) |-> data[i][1]]

Frame(identifier) ==
    LET i == CHOOSE i \in 1..Len(data) : data[i][1] = identifier IN data[i][2]

\* identifier[-self.date_str_pos:]
DateSuffix(identifier) == identifier.date

\* The frame read from one contract file: one row per trade date, in date
\* order, every Close equal to the contract's quote.
ContractFrame(identifier, dates, quote) ==
    LET idx == SortedSeqOf(dates)
    IN  [i \in 1..Len(idx) |-> [date |-> idx[i], Close |-> quote, key |-> identifier]]

\* The non-empty sets of trade dates a contract file may hold.
SeriesChoices == (SUBSET Dates) \ {{}}

Max(S) == CHOOSE x \in S : \A y \in S : y <= x

\* A mapping of n contract files: file i holds the trade dates series[i]; its
\* identifier encodes its last trade date plus lag; the contract named zero
\* (0: none) is quoted 0 on every date, the others 10 + name.
Mapping(n, series, lag, zero) ==
    [i \in 1..n |->
        LET identifier == [name |-> i, date |-> Max(series[i]) + lag]
        IN  <<identifier,
              ContractFrame(identifier, series[i], IF i = zero THEN 0 ELSE 10 + i)>>]

\* ------------------------------------------------ step 1.1: expirations
ExtractDateFromContractIdentifier ==
    /\ pc = "extract"
    /\ unordered_dates' = [i \in 1..Len(data) |-> DateSuffix(Keys[i])]
    /\ pc' = "order"
    /\ UNCHANGED <<fred, config, ordered, contract_month, concatenated_dict, merged_df,
                   pseudo_exp_date_dict, days_to_maturity, dtm_ok, slopes, row_i,
                   output, err>>

\* ----------------------------------------------------- step 1.2: order
\* for unordered_date in unordered_dates: for original_identifier in keys:
\*     if the suffix equals the date: append
MatchingIdentifiers(d) == SelectSeq(Keys, LAMBDA k : DateSuffix(k) = d)

RECURSIVE OrderedIdentifiers(_)
OrderedIdentifiers(sorted_dates) ==
    IF sorted_dates = <<>> THEN <<>>
    ELSE MatchingIdentifiers(Head(sorted_dates)) \o OrderedIdentifiers(Tail(sorted_dates))

OrderContractsBasedOnDates ==
    /\ pc = "order"
    /\ unordered_dates' = ListSort(unordered_dates)
    /\ ordered' = OrderedIdentifiers(ListSort(unordered_dates))
    /\ contract_month' = 1
    /\ pc' = "stitch"
    /\ UNCHANGED <<fred, config, concatenated_dict, merged_df, pseudo_exp_date_dict,
                   days_to_maturity, dtm_ok, slopes, row_i, output, err>>

\* ------------------------------------------------- step 1.3: stitching
\* The result of a routine that may raise: the exception (or "none") and the
\* value returned.
Raised(e) == [err |-> e, frame |-> <<>>]

Returned(frame) == [err |-> "none", frame |-> frame]

\* The front-month loop without the filter on the last date already included.
RECURSIVE FrontMonthLoopNoFilter(_, _, _)
FrontMonthLoopNoFilter(concat, last_date_from_prev_contract, i) ==
    IF i > Len(ordered) THEN concat
    ELSE LET df == ILocDropLast(Frame(ordered[i]), days_of_liquidity)
             next == concat \o df
         IN  FrontMonthLoopNoFilter(next, Last(next).date, i + 1)

\* The for-loop of ___concatenate_front_month over ordered_identifiers[1:],
\* from position i (1-based) on.
RECURSIVE FrontMonthLoop(_, _, _)
FrontMonthLoop(concat, last_date_from_prev_contract, i) ==
    IF i > Len(ordered) THEN concat
    ELSE LET df == ILocDropLast(Frame(ordered[i]), days_of_liquidity)
             next == concat \o RowsAfter(df, last_date_from_prev_contract)
         IN  FrontMonthLoop(next, Last(next).date, i + 1)

ConcatenateFrontMonth ==
    IF Len(ordered) = 0 THEN Raised("IndexError")
    ELSE LET first == ILocDropLast(Frame(ordered[1]), days_of_liquidity)
         IN  IF first = <<>> THEN Raised("IndexError")
             ELSE Returned(FrontMonthLoop(first, Last(first).date, 2))

\* The for-loop of ___concatenate_other_months over range(contract_month,
\* len(ordered_identifiers)), from position i (1-based: i - 1 is the
\* source's i) on.
RECURSIVE OtherMonthsLoop(_, _, _, _)
OtherMonthsLoop(month, concat, last_date_from_prev_contract, i) ==
    IF i > Len(ordered) THEN Returned(concat)
    ELSE LET front == Frame(ordered[i - (month - 1)])
         IN  IF ~HasIndexFromEnd(front, days_of_liquidity) THEN Raised("IndexError")
             ELSE LET front_month_expiry == IndexFromEnd(front, days_of_liquidity)
                      candidatedf ==
                          RowsAfter(RowsBefore(Frame(ordered[i]), front_month_expiry),
                                    last_date_from_prev_contract)
                      next == concat \o candidatedf
                  IN  OtherMonthsLoop(month, next, Last(next).date, i + 1)

ConcatenateOtherMonths(month) ==
    IF Len(ordered) = 0 THEN Raised("IndexError")
    ELSE IF ~HasIndexFromEnd(Frame(ordered[1]), days_of_liquidity) THEN Raised("IndexError")
    ELSE IF month > Len(ordered) THEN Raised("IndexError")
    ELSE LET front_month_expiry == IndexFromEnd(Frame(ordered[1]), days_of_liquidity)
             first == RowsBefore(Frame(ordered[month]), front_month_expiry)
         IN  IF first = <<>> THEN Raised("IndexError")
             ELSE OtherMonthsLoop(month, first, Last(first).date, month + 1)

ConcatenateContracts(month) ==
    IF month = 1 THEN ConcatenateFrontMonth ELSE ConcatenateOtherMonths(month)

\* One iteration of the loop of _process_maturity_data.
ProcessMaturityData ==
    /\ pc = "stitch"
    /\ contract_month <= max_contract_maturity
    /\ LET res == ConcatenateContracts(contract_month)
       IN  IF res.err # "none"
           THEN /\ pc' = "failed"
                /\ err' = res.err
                /\ UNCHANGED <<concatenated_dict, contract_month>>
           ELSE /\ concatenated_dict' = Append(concatenated_dict, DropDuplicated(res.frame))
                /\ contract_month' = contract_month + 1
                /\ pc' = IF contract_month = max_contract_maturity THEN "merge" ELSE "stitch"
                /\ err' = err
    /\ UNCHANGED <<fred, config, unordered_dates, ordered, merged_df, pseudo_exp_date_dict,
                   days_to_maturity, dtm_ok, slopes, row_i, output>>

\* ------------------------------------------- step 1.4: the rank table
\* The value a frame holds on date d, NaN where it has no row for d.
CloseAt(frame, d) ==
    IF d \in IndexSet(frame)
    THEN frame[CHOOSE i \in 1..Len(frame) : frame[i].date = d].Close
    ELSE NaN

\* pd.concat(frames, axis=1) of frames with unique date indexes: the outer
\* join on the date, the index being the sorted union of the indexes.
ConcatColumns(frames) ==
    LET idx == SortedSeqOf(UNION {IndexSet(frames[k]) : k \in 1..Len(frames)})
    IN  [i \in 1..Len(idx) |->
            [date |-> idx[i],
             cells |-> [k \in 1..Len(frames) |-> CloseAt(frames[k], idx[i])]]]

MergeRanks ==
    /\ pc = "merge"
    /\ merged_df' = ConcatColumns(concatenated_dict)
    /\ pc' = "pseudo"
    /\ UNCHANGED <<fred, config, unordered_dates, ordered, contract_month, concatenated_dict,
                   pseudo_exp_date_dict, days_to_maturity, dtm_ok, slopes, row_i,
                   output, err>>

\* --------------------------------------- step 2.1: pseudo expirations
DictKeys(dict) == {dict[i].exp : i \in 1..Len(dict)}

DictGet(dict, k) == dict[CHOOSE i \in 1..Len(dict) : dict[i].exp = k].pseudo

\* self.merged_df.index[self.merged_df.index <= exp]
MergedDatesUpTo(exp) == SelectSeq(Index(merged_df), LAMBDA d : d <= exp)

\* The loop of _extract_pseudo_exp_date_list_from_monthly_vix_dict from
\* position i of the ordered chain on; dict holds the pairs added so far.
RECURSIVE PseudoExpLoop(_, _)
PseudoExpLoop(dict, i) ==
    IF i > Len(ordered) THEN [err |-> "none", dict |-> dict]
    ELSE LET df == Frame(ordered[i])
             exp == Last(df).date
             upto == MergedDatesUpTo(exp)
             has == IF days_of_liquidity = 0 THEN Len(upto) >= 1
                    ELSE days_of_liquidity <= Len(upto)
         IN  IF ~has THEN [err |-> "IndexError", dict |-> dict]
             ELSE LET pseudo_exp == IF days_of_liquidity = 0 THEN upto[1]
                                    ELSE upto[Len(upto) - days_of_liquidity + 1]
                      seen == {dict[j].pseudo : j \in 1..Len(dict)}
                  IN  IF pseudo_exp \in seen THEN PseudoExpLoop(dict, i + 1)
                      ELSE PseudoExpLoop(
                               Append(dict, [exp |-> exp, pseudo |-> pseudo_exp]), i + 1)

ExtractPseudoExpDateList ==
    /\ pc = "pseudo"
    /\ LET res == PseudoExpLoop(<<>>, 1)
       IN  IF res.err # "none"
           THEN /\ pc' = "failed"
                /\ err' = res.err
                /\ UNCHANGED pseudo_exp_date_dict
           ELSE /\ pseudo_exp_date_dict' = res.dict
                /\ pc' = "days"
                /\ err' = err
    /\ UNCHANGED <<fred, config, unordered_dates, ordered, contract_month, concatenated_dict,
                   merged_df, days_to_maturity, dtm_ok, slopes, row_i, output>>

\* ------------------------------------------- step 2.2: days to expiry
\* The inner loop over j in range(max_contract_maturity) for one date of
\* segment i (1-based position in the chain), from rank j (1-based) on.
RECURSIVE DayList(_, _, _)
DayList(i, date, j) ==
    IF j > max_contract_maturity THEN <<>>
    ELSE LET next_vix_key == ordered[i + j - 1]
             next_df == Frame(next_vix_key)
         IN  (IF date \in IndexSet(next_df)
              THEN <<DateSuffix(next_vix_key) - date>> ELSE <<>>)
             \o DayList(i, date, j + 1)

\* days_to_expiry.update({date: day_list}) on a dict kept as rows in insertion
\* order: an existing key keeps its place and takes the new value.
DictUpdate(rows, date, day_list) ==
    IF \E k \in 1..Len(rows) : rows[k].date = date
    THEN [k \in 1..Len(rows) |->
             IF rows[k].date = date THEN [date |-> date, days |-> day_list] ELSE rows[k]]
    ELSE Append(rows, [date |-> date, days |-> day_list])

RECURSIVE UpdateAll(_, _, _)
UpdateAll(rows, i, dates) ==
    IF dates = <<>> THEN rows
    ELSE UpdateAll(DictUpdate(rows, Head(dates), <<0>> \o DayList(i, Head(dates), 1)),
                   i, Tail(dates))

\* The outer loop over range(len(ordered_identifiers) - (max_contract_maturity
\* + 1)), from position i (1-based) on.
RECURSIVE DaysToExpiryLoop(_, _)
DaysToExpiryLoop(rows, i) ==
    IF i > Len(ordered) - (max_contract_maturity + 1) THEN [err |-> "none", rows |-> rows]
    ELSE LET exp_date_key == DateSuffix(ordered[i])
         IN  IF exp_date_key \notin DictKeys(pseudo_exp_date_dict)
             THEN [err |-> "KeyError", rows |-> rows]
             ELSE IF i > 1 /\ Len(pseudo_exp_date_dict) < i - 1
             THEN [err |-> "IndexError", rows |-> rows]
             ELSE LET pseudo_exp == DictGet(pseudo_exp_date_dict, exp_date_key)
                      before == SelectSeq(Index(merged_df), LAMBDA d : d < pseudo_exp)
                      dates_before_date_key ==
                          IF i = 1 THEN before
                          ELSE LET last_date ==
                                       DictGet(pseudo_exp_date_dict,
                                               SortedSeqOf(DictKeys(pseudo_exp_date_dict))[i - 1])
                               IN  SelectSeq(before, LAMBDA d : d >= last_date)
                  IN  DaysToExpiryLoop(UpdateAll(rows, i, dates_before_date_key), i + 1)

\* DataFrame(dict of lists) needs lists of one length.
SameLength(rows) ==
    \A a, b \in 1..Len(rows) : Len(rows[a].days) = Len(rows[b].days)

ExtractDaysToExpiry ==
    /\ pc = "days"
    /\ LET res == DaysToExpiryLoop(<<>>, 1)
       IN  IF res.err # "none" \/ ~SameLength(res.rows)
           THEN /\ pc' = "failed"
                /\ err' = IF res.err # "none" THEN res.err ELSE "ValueError"
                /\ UNCHANGED <<days_to_maturity, dtm_ok>>
           ELSE /\ days_to_maturity' = res.rows
                /\ dtm_ok' = TRUE
                /\ pc' = "spot"
                /\ err' = err
    /\ UNCHANGED <<fred, config, unordered_dates, ordered, contract_month, concatenated_dict,
                   merged_df, pseudo_exp_date_dict, slopes, row_i, output>>

\* ---------------------------------- steps 2.3, 2.4: spot, window, drop
\* pd.concat([self.spot_vix, self.merged_df], axis=1): the outer join of the
\* spot column with the rank columns.
ConcatSpot(spot, table) ==
    LET idx == SortedSeqOf(IndexSet(spot) \cup IndexSet(table))
        width == max_contract_maturity
        RankCells(d) ==
            IF d \in IndexSet(table)
            THEN table[CHOOSE i \in 1..Len(table) : table[i].date = d].cells
            ELSE [k \in 1..width |-> NaN]
    IN  [i \in 1..Len(idx) |->
            [date |-> idx[i], cells |-> <<CloseAt(spot, idx[i])>> \o RankCells(idx[i])]]

\* table[start:end] on a sorted date index: both ends included.
SliceDates(table, start, end) ==
    SelectSeq(table, LAMBDA row : start <= row.date /\ row.date <= end)

\* The spot series read from the index file: one row per date, Close 10.
SpotFrame(dates) ==
    LET idx == SortedSeqOf(dates)
    IN  [i \in 1..Len(idx) |-> [date |-> idx[i], Close |-> 10]]

\* The trade dates the index file may hold: every date, or all but one.
SpotChoices == {Dates} \cup {Dates \ {d} : d \in Dates}

MergeSpot ==
    /\ pc = "spot"
    /\ \E dates \in SpotChoices : spot_vix' = SpotFrame(dates)
    /\ start_date' \in Dates
    /\ end_date' \in Dates
    /\ start_date' <= end_date'
    /\ merged_df' = SliceDates(ConcatSpot(spot_vix', merged_df), start_date', end_date')
    /\ pc' = "drop"
    /\ UNCHANGED <<fred, data, days_of_liquidity, max_contract_maturity, dates_to_drop,
                   unordered_dates, ordered, contract_month, concatenated_dict,
                   pseudo_exp_date_dict, days_to_maturity, dtm_ok, slopes, row_i,
                   output, err>>

\* self.merged_df.drop(self.dates_to_drop): a label that is not in the index
\* raises KeyError.
DropChoices == {S \in SUBSET Dates : Cardinality(S) <= 1}

DropDates ==
    /\ pc = "drop"
    /\ dates_to_drop' \in DropChoices
    /\ IF dates_to_drop' \subseteq IndexSet(merged_df)
       THEN /\ merged_df' = SelectSeq(merged_df, LAMBDA row : row.date \notin dates_to_drop')
            /\ row_i' = 1
            /\ pc' = "slopes"
            /\ err' = err
       ELSE /\ pc' = "failed"
            /\ err' = "KeyError"
            /\ UNCHANGED <<merged_df, row_i>>
    /\ UNCHANGED <<fred, data, spot_vix, days_of_liquidity, max_contract_maturity, start_date,
                   end_date, unordered_dates, ordered, contract_month, concatenated_dict,
                   pseudo_exp_date_dict, days_to_maturity, dtm_ok, slopes, output>>

\* ------------------------------------------------- step 2.5: the slopes
RECURSIVE SumSeq(_)
SumSeq(s) == IF s = <<>> THEN 0 ELSE Head(s) + SumSeq(Tail(s))

\* LinearRegression(fit_intercept=True).fit(x, y).coef_ for one regressor, as
\* the fraction <<numerator, denominator>>: the least-squares slope, and 0
\* (the minimum-norm solution) when the regressor does not vary, one sample
\* included.
\* The sums are taken over the pairs of samples,
\*   n * Sxy - Sx * Sy = SUM_{i<j} (x[i] - x[j]) * (y[i] - y[j]),
\* which keeps every intermediate value within 32 bits for the treasury
\* day counts.
LinregCoef(x, y) ==
    LET n == Len(x)
        OverPairs(f(_, _)) ==
            SumSeq([i \in 1..n |-> SumSeq([j \in 1..n |-> IF i < j THEN f(i, j) ELSE 0])])
        num == OverPairs(LAMBDA i, j : (x[i] - x[j]) * (y[i] - y[j]))
        den == OverPairs(LAMBDA i, j : (x[i] - x[j]) * (x[i] - x[j]))
    IN  IF den = 0 THEN <<0, 1>> ELSE <<num, den>>

\* [[x] for x in row if x != 0]: NaN != 0 holds, so a missing value stays.
OpenContracts(row) == SelectSeq(row, LAMBDA x : x # 0)

\* days_exp[:len(open_contracts)]
OpenContractsDays(days_exp, open_contracts) ==
    SubSeq(days_exp, 1, IF Len(open_contracts) < Len(days_exp)
                        THEN Len(open_contracts) ELSE Len(days_exp))

\* The body of the loop of _gen_vix_curve_slopes for the snapshot `row` and
\* the day counts `days_exp`: the exception raised, or the slope.
FitRow(row, days_exp) ==
    LET open_contracts == OpenContracts(row)
        open_contracts_days == OpenContractsDays(days_exp, open_contracts)
    IN  IF Len(open_contracts) # Len(open_contracts_days)
        THEN [err |-> "ValueError", slope |-> <<0, 1>>]
        ELSE IF Len(open_contracts) = 0
        THEN [err |-> "ValueError", slope |-> <<0, 1>>]
        ELSE IF \E k \in 1..Len(open_contracts) : open_contracts[k] = NaN
        THEN [err |-> "ValueError", slope |-> <<0, 1>>]
        ELSE [err |-> "none", slope |-> LinregCoef(open_contracts_days, open_contracts)]

\* One iteration of the loop of _gen_vix_curve_slopes; row i of the table is
\* fitted against row i of the day-count array.
GenVixCurveSlopes ==
    /\ pc = "slopes"
    /\ row_i <= Len(merged_df)
    /\ IF row_i > Len(days_to_maturity)
       THEN /\ pc' = "failed"
            /\ err' = "IndexError"
            /\ UNCHANGED <<slopes, row_i>>
       ELSE LET fit == FitRow(merged_df[row_i].cells, days_to_maturity[row_i].days)
            IN  IF fit.err # "none"
                THEN /\ pc' = "failed"
                     /\ err' = fit.err
                     /\ UNCHANGED <<slopes, row_i>>
                ELSE /\ slopes' = Append(slopes,
                                         [date |-> merged_df[row_i].date,
                                          vix_slope |-> fit.slope,
                                          days_of |-> days_to_maturity[row_i].date])
                     /\ row_i' = row_i + 1
                     /\ UNCHANGED <<pc, err>>
    /\ UNCHANGED <<fred, config, unordered_dates, ordered, contract_month, concatenated_dict,
                   merged_df, pseudo_exp_date_dict, days_to_maturity, dtm_ok, output>>

\* ---------------------------------------------------- step 2.6: export
\* self.merged_df.join(self.vix_slope_df)
Export ==
    /\ pc = "slopes"
    /\ row_i > Len(merged_df)
    /\ output' = [i \in 1..Len(merged_df) |->
                     [date |-> merged_df[i].date,
                      cells |-> merged_df[i].cells,
                      vix_slope |-> slopes[CHOOSE k \in 1..Len(slopes) :
                                               slopes[k].date = merged_df[i].date].vix_slope]]
    /\ pc' = "done"
    /\ UNCHANGED <<fred, config, unordered_dates, ordered, contract_month, concatenated_dict,
                   merged_df, pseudo_exp_date_dict, days_to_maturity, dtm_ok, slopes,
                   row_i, err>>

\* ------------------------------------------- the yield-curve slope run
\* M, Y = 30, 365 and one row of treasury_days_matrix.
M == 30

Y == 365

TreasuryDays ==
    <<M, Y \div 4, Y \div 2, Y, Y * 2, Y * 3, Y * 5, Y * 7, Y * 10, Y * 20, Y * 30>>

\* The Full_Slope cell of a date that the slope frame has no row for.
NaNSlope == <<0, 0>>

\* One row of the raw yield file: the first `valid` of the eleven maturities
\* are quoted (maturity k at k), the others are missing.
FredRow(date, valid) ==
    [date |-> date,
     cells |-> [k \in 1..Len(TreasuryDays) |-> IF k <= valid THEN k ELSE NaN]]

\* self.data.dropna(inplace=True): the rows without a missing value.
DropNa(frame) ==
    SelectSeq(frame, LAMBDA row : \A k \in 1..Len(row.cells) : row.cells[k] # NaN)

\* seq[start:max_vals]
Slice(seq, start, max_vals) ==
    SubSeq(seq, start + 1, IF max_vals < Len(seq) THEN max_vals ELSE Len(seq))

\* The body of the loop of __gen_rates_curve_slopes: no entry is filtered out.
FitRatesRow(row, days_exp, max_vals, start) ==
    LET open_contracts == Slice(row, start, max_vals)
        open_contracts_days == Slice(days_exp, start, max_vals)
    IN  IF Len(open_contracts) # Len(open_contracts_days)
        THEN [err |-> "ValueError", slope |-> <<0, 1>>]
        ELSE IF Len(open_contracts) = 0
        THEN [err |-> "ValueError", slope |-> <<0, 1>>]
        ELSE IF \E k \in 1..Len(open_contracts) : open_contracts[k] = NaN
        THEN [err |-> "ValueError", slope |-> <<0, 1>>]
        ELSE [err |-> "none", slope |-> LinregCoef(open_contracts_days, open_contracts)]

\* __gen_rates_curve_slopes: one fit per row of maturity_data.
GenRatesCurveSlopes(maturity_data, days_to_maturity_matrix, max_vals, start) ==
    [i \in 1..Len(maturity_data) |->
        FitRatesRow(maturity_data[i].cells, days_to_maturity_matrix[i], max_vals, start)]

\* The elif data_type == "FRED" branch of __call__: processed_data is a copy
\* of the raw frame, taken before _process_fred_data drops the incomplete
\* rows in place; the slope frame is aligned on the index of the copy, so a
\* dropped date gets a missing Full_Slope.
ProcessFredData ==
    /\ pc = "fred"
    /\ LET kept == DropNa(fred_data)
           treasury_days_matrix == [i \in 1..Len(kept) |-> TreasuryDays]
           yc_slopes == GenRatesCurveSlopes(kept, treasury_days_matrix,
                                            Len(TreasuryDays), 0)
           SlopeOf(date) ==
               IF \E i \in 1..Len(kept) : kept[i].date = date
               THEN yc_slopes[CHOOSE i \in 1..Len(kept) : kept[i].date = date].slope
               ELSE NaNSlope
       IN  IF \E i \in 1..Len(yc_slopes) : yc_slopes[i].err # "none"
           THEN /\ pc' = "failed"
                /\ err' = "ValueError"
                /\ fred_data' = kept
                /\ processed_data' = fred_data
           ELSE /\ pc' = "done"
                /\ err' = err
                /\ fred_data' = kept
                /\ processed_data' =
                       [i \in 1..Len(fred_data) |->
                           [date |-> fred_data[i].date, cells |-> fred_data[i].cells,
                            Full_Slope |-> SlopeOf(fred_data[i].date)]]
    /\ UNCHANGED <<config, unordered_dates, ordered, contract_month, concatenated_dict,
                   merged_df, pseudo_exp_date_dict, days_to_maturity, dtm_ok, slopes,
                   row_i, output>>

\* ------------------------------------------------------ specifications
InitRest ==
    /\ unordered_dates = <<>>
    /\ ordered = <<>>
    /\ contract_month = 0
    /\ concatenated_dict = <<>>
    /\ merged_df = <<>>
    /\ pseudo_exp_date_dict = <<>>
    /\ days_to_maturity = <<>>
    /\ dtm_ok = FALSE
    /\ slopes = <<>>
    /\ row_i = 0
    /\ output = <<>>
    /\ pc = "extract"
    /\ err = "none"
    /\ fred_data = <<>>
    /\ processed_data = <<>>

\* The spot series, the date window and the exclusion list are read for the
\* first time by steps 2.3 and 2.4; until then the model leaves them unset.
InitUnread ==
    /\ spot_vix = <<>>
    /\ start_date = 0
    /\ end_date = 0
    /\ dates_to_drop = {}

\* The trade dates of n files whose last trade dates differ.
DistinctSeries(n) ==
    {series \in [1..n -> SeriesChoices] :
        \A i, j \in 1..n : i # j => Max(series[i]) # Max(series[j])}

\* The chain stitcher, over every mapping of up to MaxContracts files with
\* distinct expirations, listed in any order.
StitchInit ==
    /\ \E n \in 1..MaxContracts : \E series \in DistinctSeries(n) :
           data = Mapping(n, series, 0, 0)
    /\ days_of_liquidity \in 0..MaxRoll
    /\ max_contract_maturity \in 1..MaxRank
    /\ InitUnread
    /\ InitRest

StitchNext ==
    \/ ExtractDateFromContractIdentifier
    \/ OrderContractsBasedOnDates
    \/ ProcessMaturityData

StitchSpec == StitchInit /\ [][StitchNext]_vars

\* The same steps over every mapping, expirations that coincide included.
DupInit ==
    /\ \E n \in 1..MaxContracts : \E series \in [1..n -> SeriesChoices] :
           data = Mapping(n, series, 0, 0)
    /\ days_of_liquidity \in 0..MaxRoll
    /\ max_contract_maturity \in 1..MaxRank
    /\ InitUnread
    /\ InitRest

DupSpec == DupInit /\ [][StitchNext]_vars

\* A run of the whole VIX pipeline.
VixInit ==
    /\ \E n \in 1..MaxContracts : \E series \in DistinctSeries(n) :
       \E lag \in 0..MaxLag : \E zero \in 0..n :
           data = Mapping(n, series, lag, zero)
    /\ days_of_liquidity \in 0..MaxRoll
    /\ max_contract_maturity \in 1..MaxRank
    /\ InitUnread
    /\ InitRest

\* A run of the yield-curve slopes over a raw file of up to MaxFredRows dates.
FredInit ==
    /\ \E n \in 1..MaxFredRows : \E valid \in [1..n -> 0..Len(TreasuryDays)] :
           fred_data = [i \in 1..n |-> FredRow(i, valid[i])]
    /\ processed_data = <<>>
    /\ data = <<>>
    /\ days_of_liquidity = 0
    /\ max_contract_maturity = 0
    /\ InitUnread
    /\ unordered_dates = <<>>
    /\ ordered = <<>>
    /\ contract_month = 0
    /\ concatenated_dict = <<>>
    /\ merged_df = <<>>
    /\ pseudo_exp_date_dict = <<>>
    /\ days_to_maturity = <<>>
    /\ dtm_ok = FALSE
    /\ slopes = <<>>
    /\ row_i = 0
    /\ output = <<>>
    /\ pc = "fred"
    /\ err = "none"

Init == VixInit \/ FredInit

Next ==
    \/ ExtractDateFromContractIdentifier
    \/ OrderContractsBasedOnDates
    \/ ProcessMaturityData
    \/ MergeRanks
    \/ ExtractPseudoExpDateList
    \/ ExtractDaysToExpiry
    \/ MergeSpot
    \/ DropDates
    \/ GenVixCurveSlopes
    \/ Export
    \/ ProcessFredData

Spec == Init /\ [][Next]_vars

\* ================================================================ claims
\* The position of an identifier in the ordered chain (1 = first to expire).
ChainPos(key) == CHOOSE j \in 1..Len(ordered) : ordered[j] = key

StrictlyIncreasing(frame) ==
    \A i \in 1..(Len(frame) - 1) : frame[i].date < frame[i + 1].date

\* C1: every stitched rank series that _process_maturity_data has built has a
\* strictly increasing date index: no date twice, no later row with an
\* earlier date.
C1_StitchedDatesStrictlyIncreasing ==
    \A k \in 1..Len(concatenated_dict) : StrictlyIncreasing(concatenated_dict[k])

\* C1 witness: ranks 1 and 2 are both built, each from rows of at least two
\* contracts, out of a chain in which some contract misses a trade date.
C1_Witness ==
    /\ Len(concatenated_dict) >= 2
    /\ \A k \in 1..2 : \E a, b \in Range(concatenated_dict[k]) : a.key # b.key
    /\ \E i \in 1..Len(data) : \E d \in Dates :
           /\ d \notin IndexSet(data[i][2])
           /\ \E lo, hi \in IndexSet(data[i][2]) : lo < d /\ d < hi

\* C2: in a two-contract chain A, B with roll offset r >= 1 the rank-1 series
\* holds exactly A's observations except the last r, priced from A, and
\* exactly B's observations (except B's last r) dated after the last retained
\* date of A, priced from B; so every date up to the last retained date of A
\* is priced from A and every later date from B.
C2_TwoContractRollBoundary ==
    (Len(ordered) = 2 /\ days_of_liquidity >= 1 /\ Len(concatenated_dict) >= 1) =>
        LET A == Frame(ordered[1])
            B == Frame(ordered[2])
            r == days_of_liquidity
            s == concatenated_dict[1]
            cut == Len(A) - r
            fromA == {A[i] : i \in 1..cut}
            fromB == {B[j] : j \in {j \in 1..(Len(B) - r) : B[j].date > A[cut].date}}
        IN  /\ cut >= 1
            /\ Range(s) = fromA \cup fromB
            /\ Len(s) = Cardinality(fromA \cup fromB)
            /\ \A i \in 1..Len(s) :
                   IF s[i].date <= A[cut].date THEN s[i].key = ordered[1]
                   ELSE s[i].key = ordered[2]

\* C2 witness: a two-contract chain whose rank-1 series holds rows of both
\* contracts, where B also trades on dates A already covers and r >= 1 rows of
\* B are cut off.
C2_Witness ==
    /\ Len(ordered) = 2
    /\ days_of_liquidity >= 1
    /\ Len(concatenated_dict) >= 1
    /\ \E a, b \in Range(concatenated_dict[1]) : a.key = ordered[1] /\ b.key = ordered[2]
    /\ \E a \in Range(concatenated_dict[1]) :
           a.key = ordered[1] /\ a.date \in IndexSet(Frame(ordered[2]))

\* C3: on every date that both the rank-1 and the rank-k series hold, the
\* rank-k price comes from the contract (k - 1) chain positions after the
\* contract the rank-1 price comes from.
C3_RankLagsFrontByKMinusOne ==
    \A k \in 1..Len(concatenated_dict) :
        \A a \in Range(concatenated_dict[1]) : \A b \in Range(concatenated_dict[k]) :
            a.date = b.date => ChainPos(b.key) = ChainPos(a.key) + (k - 1)

\* The snapshot the table holds for date d.
Snapshot(d) == merged_df[CHOOSE i \in 1..Len(merged_df) : merged_df[i].date = d].cells

\* The valid prices of a snapshot: neither zero nor missing.
ValidPrices(cells) == SelectSeq(cells, LAMBDA x : x # 0 /\ x # NaN)

\* The slope step has started (step 2.4 has handed it the table).
InSlopeStep == row_i >= 1

\* C4: every date fitted by the slope step is regressed against the
\* days-to-maturity row that the expiry calendar computed for that same date.
C4_DaysRowOfSameDate ==
    \A i \in 1..Len(slopes) : slopes[i].days_of = slopes[i].date

\* C5: a snapshot with one or no valid price never gets a slope number; when
\* the futures slope step stops on such a snapshot the error is
\* InsufficientPoints; and a yield-curve run over a file that holds such a
\* snapshot reports InsufficientPoints.
C5_InsufficientPointsRaised ==
    /\ \A i \in 1..Len(slopes) : Len(ValidPrices(Snapshot(slopes[i].date))) >= 2
    /\ (InSlopeStep /\ pc = "failed" /\ row_i <= Len(days_to_maturity)
            /\ Len(ValidPrices(merged_df[row_i].cells)) <= 1)
           => err = "InsufficientPoints"
    /\ (pc = "done" /\ \E i \in 1..Len(processed_data) :
                           Len(ValidPrices(processed_data[i].cells)) <= 1)
           => err = "InsufficientPoints"

\* C6: when two identifiers of the mapping carry the same expiration date,
\* chain construction ends in DuplicateExpiration: no ordered chain is kept
\* and nothing is stitched.
C6_DuplicateExpirationAborts ==
    ((\E i, j \in 1..Len(data) : i # j /\ DateSuffix(Keys[i]) = DateSuffix(Keys[j]))
        /\ pc \notin {"extract", "order"})
    => (err = "DuplicateExpiration" /\ ordered = <<>> /\ concatenated_dict = <<>>)

\* C7: a fit that fails for one date does not end the run.
C7_FailedFitDoesNotAbort ==
    (InSlopeStep /\ err = "ValueError") => pc # "failed"

\* C8: every date of the table handed to the slope step has a
\* days-to-maturity row, and the run does not stop for want of one.
C8_EveryDateHasDaysRow ==
    InSlopeStep =>
        /\ \A i \in 1..Len(merged_df) :
               \E k \in 1..Len(days_to_maturity) :
                   days_to_maturity[k].date = merged_df[i].date
        /\ ~(pc = "failed" /\ err = "IndexError")

\* C9: every date of the table handed to the slope step is a date of the
\* spot source and of the futures source.
C9_DatesInBothSources ==
    InSlopeStep =>
        \A i \in 1..Len(merged_df) :
            /\ merged_df[i].date \in IndexSet(spot_vix)
            /\ \E k \in 1..Len(concatenated_dict) :
                   merged_df[i].date \in IndexSet(concatenated_dict[k])

\* The contract that supplies the rank-k stitched price on date d.
SupplierOf(k, d) ==
    LET frame == concatenated_dict[k]
    IN  frame[CHOOSE i \in 1..Len(frame) : frame[i].date = d].key

\* C10: in every days-to-maturity row the first entry is 0, and the entry
\* for rank k is the number of days from the row's date to the expiration
\* encoded in the identifier of the contract that supplies the rank-k price
\* on that date.
C10_DaysCountToSupplierExpiry ==
    dtm_ok =>
        \A i \in 1..Len(days_to_maturity) :
            LET d == days_to_maturity[i].date
                days == days_to_maturity[i].days
            IN  /\ days[1] = 0
                /\ \A k \in 1..Len(concatenated_dict) :
                       (d \in IndexSet(concatenated_dict[k]) /\ Len(days) >= k + 1)
                           => days[k + 1] = DateSuffix(SupplierOf(k, d)) - d

\* The lists handed to model.fit for row i of the table: open_contracts and
\* open_contracts_days.
FitInputs(i) ==
    LET open_contracts == OpenContracts(merged_df[i].cells)
    IN  [prices |-> open_contracts,
         days |-> OpenContractsDays(days_to_maturity[i].days, open_contracts)]

\* The slope step has built the fit inputs of row i: the row is fitted, or it
\* is the row whose fit ended the run.
FitAttempted(i) ==
    /\ InSlopeStep
    /\ i <= Len(days_to_maturity)
    /\ i < row_i \/ (i = row_i /\ pc = "failed")

\* C11: for every row the slope step has handled, the prices handed to the
\* regression are exactly the valid (non-zero, non-missing) entries of the
\* snapshot in their order, there are as many day counts as prices, and no
\* missing value is among the prices.
C11_FitTakesExactlyValidPrices ==
    \A i \in 1..Len(merged_df) :
        FitAttempted(i) =>
            /\ FitInputs(i).prices = ValidPrices(merged_df[i].cells)
            /\ Len(FitInputs(i).prices) = Len(FitInputs(i).days)
            /\ \A k \in 1..Len(FitInputs(i).prices) : FitInputs(i).prices[k] # NaN

\* C12: with roll offset 0 the stitching of no rank ends in an error, and
\* the rank-1 series removes no observation: it starts with the whole series
\* of the first contract of the chain and holds every date that a contract
\* of the chain trades.
C12_ZeroRollOffsetKeepsAll ==
    days_of_liquidity = 0 =>
        /\ pc # "failed"
        /\ Len(concatenated_dict) >= 1 =>
               LET first == Frame(ordered[1])
                   s == concatenated_dict[1]
               IN  /\ Len(s) >= Len(first)
                   /\ SubSeq(s, 1, Len(first)) = first
                   /\ \A j \in 1..Len(ordered) : IndexSet(Frame(ordered[j])) \subseteq IndexSet(s)

\* C13: for a non-empty chain the stitching of a rank k >= 2 never fails,
\* whether the chain has fewer than k contracts or the first rank-k segment
\* selects no observation: a (possibly empty) series is returned for the
\* rank.
C13_ShortChainTruncates ==
    (Len(ordered) >= 1 /\ contract_month >= 2) =>
        /\ pc # "failed"
        /\ pc = "merge" => Len(concatenated_dict) = max_contract_maturity

\* C14: for a mapping whose identifiers carry distinct expiration dates, the
\* chain built by _order_contracts_based_on_dates holds every identifier of
\* the mapping exactly once, in strictly ascending order of expiration,
\* whatever the order of the mapping.
C14_OrderedChainIsAscendingPermutation ==
    pc \notin {"extract", "order"} =>
        /\ Len(ordered) = Len(data)
        /\ Range(ordered) = Range(Keys)
        /\ \A i, j \in 1..Len(ordered) :
               i < j => DateSuffix(ordered[i]) < DateSuffix(ordered[j])

\* C14 witness: a chain built from a mapping of three files that lists a later
\* expiration before an earlier one.
C14_Witness ==
    /\ pc = "stitch"
    /\ Len(ordered) = 3
    /\ \E i, j \in 1..Len(data) : i < j /\ DateSuffix(Keys[i]) > DateSuffix(Keys[j])

====
